---- MODULE Spec2Model ----
(***************************************************************************)
(* Model of scraper.py: one run of scrape(), the leaderboard scraper.      *)
(* The run is a single thread of control; every awaited browser call is    *)
(* an external step whose result (a value, or an exception) is chosen by   *)
(* the environment.  Text is modelled as a sequence of one-character       *)
(* strings, so that clean_text and the token splitting are computed.       *)
(***************************************************************************)
EXTENDS Integers, Sequences, FiniteSets, TLC

\* ------------------------------------------------------------------ bounds
\* Largest number of row handles the snapshot of line 86 returns.
MaxRows == 3

\* Longest text the page returns for the order cell in SpecDecoder.
MaxTextLen == 4

\* -------------------------------------------------------- program constants
TOTAL_PLAYERS == 300
max_scroll_attempts == 50
SETTLE_MS == 700
SHOW_MORE_MS == 500
FINAL_SETTLE_MS == 1500

\* ------------------------------------------------------------ environment
\* Row counts the page may report to the count() of line 75.
MeasureCounts == {0, TOTAL_PLAYERS - 1, TOTAL_PLAYERS}

\* Raw inner_text() results the page may return for each cell of a row.
OrderTexts == { <<" ", "7", "\n">> }
NameTexts == { <<"A", " ", "B", "\n", "W">> }
PointsTexts == { <<"5", " ", "+", "2">> }
WinsTexts == { <<"3", "\n", "+", "1">> }

\* Texts the page may return when one row is decoded on its own (SpecDecoder):
\* every text of up to MaxTextLen characters for the order cell, and the
\* shapes of name and "value +gain" texts that lines 97-119 tell apart.
TextAlphabet == {"a", " ", "\t", "\n"}
AllOrderTexts == UNION {[1 .. n -> TextAlphabet] : n \in 0 .. MaxTextLen}
JohnSmithMateusCrystal ==
    <<"J", "o", "h", "n", " ", "S", "m", "i", "t", "h", " ", "M", "a", "t", "e", "u", "s", " ", "[", "C", "r", "y", "s", "t", "a", "l", "]">>
AllNameTexts ==
    { JohnSmithMateusCrystal,
      <<"J", "o", "h", "n", " ", " ", "S", "m", "i", "t", "h", "\n", "M", "a", "t", "e", "u", "s">>,
      <<"J", "o", "h", "n", " ", "S", "m", "i", "t", "h">>,
      <<"J", "o", "h", "n">>,
      <<>> }
AllMetricTexts ==
    { <<"1", "2", "3", "4", " ", "+", "5", "6">>,
      <<"1", "2", "3", "4">>,
      <<" ", "7", "\n", "+", "8", " ">>,
      <<"+", "1", " ", "+", "+", "2", " ", "3">>,
      <<>> }

\* ------------------------------------------------------- Field Normaliser
Whitespace == {" ", "\t", "\n"}

RECURSIVE SplitAcc(_, _, _)
SplitAcc(s, tok, acc) ==
    IF s = <<>>
    THEN IF tok = <<>> THEN acc ELSE Append(acc, tok)
    ELSE IF Head(s) \in Whitespace
         THEN SplitAcc(Tail(s), <<>>, IF tok = <<>> THEN acc ELSE Append(acc, tok))
         ELSE SplitAcc(Tail(s), Append(tok, Head(s)), acc)

\* str.split() with no argument: the maximal runs of non-whitespace.
split(text) == SplitAcc(text, <<>>, <<>>)

RECURSIVE join(_, _)
\* sep.join(parts)
join(sep, parts) ==
    IF parts = <<>> THEN <<>>
    ELSE IF Len(parts) = 1 THEN parts[1]
    ELSE parts[1] \o sep \o join(sep, Tail(parts))

\* Variant: each whitespace character becomes a space, and that is all.
clean_text_no_collapse(text) ==
    [k \in 1 .. Len(text) |-> IF text[k] \in Whitespace THEN " " ELSE text[k]]

clean_text(text) == join(<<" ">>, split(text))

\* parts[lo:] / parts[:hi] of Python, on 1-based sequences.
Slice(parts, lo, hi) ==
    SubSeq(parts, lo, IF hi < Len(parts) THEN hi ELSE Len(parts))

\* s.replace("+", "")
remove_plus(s) == SelectSeq(s, LAMBDA c : c # "+")

\* ------------------------------------------------------------ Row Decoder
\* Lines 97-103: Name is the first two tokens, World the rest.
NameOf(full_name) ==
    LET parts == split(full_name)
    IN  IF Len(parts) >= 2 THEN join(<<" ">>, Slice(parts, 1, 2)) ELSE full_name

WorldOf(full_name) ==
    LET parts == split(full_name)
    IN  IF Len(parts) >= 2 THEN join(<<" ">>, Slice(parts, 3, Len(parts))) ELSE <<>>

\* Lines 107-109.
CreditsOf(points_text) ==
    LET parts == split(points_text)
    IN  IF Len(parts) > 0 THEN parts[1] ELSE <<>>

\* Variant: the gain is taken from the last token.
CreditsGainedOfLast(points_text) ==
    LET parts == split(points_text)
    IN  IF Len(parts) > 1 THEN parts[Len(parts)] ELSE <<>>

CreditsGainedOf(points_text) ==
    LET parts == split(points_text)
    IN  IF Len(parts) > 1 THEN parts[2] ELSE <<>>

\* Lines 113-115.
VictoriesOf(wins_text) ==
    LET parts == split(wins_text)
    IN  IF Len(parts) > 0 THEN parts[1] ELSE <<>>

VictoriesGainedOf(wins_text) ==
    LET parts == split(wins_text)
    IN  IF Len(parts) > 1 THEN parts[2] ELSE <<>>

\* ------------------------------------------------------------------ state
VARIABLES
    pc,             \* position of the run inside scrape()
    raisedAt,       \* position whose call raised out of scrape(), or "none"
    playwright,     \* the async_playwright() context: "off", "on", "stopped"
    launched,       \* firefox.launch() returned a browser
    closeCalls,     \* number of browser.close() calls made
    tracing,        \* "off", "on", "stopped"
    out,            \* the last message printed
    table,          \* result of the waits for .cc-ranking__table
    tableWaits,     \* number of wait_for_selector calls made
    reloads,        \* number of page.reload() calls made
    scroll_attempt, \* line 59
    curr_rows,      \* line 60
    nAdvance,       \* number of window.scrollBy evaluations made
    nMeasure,       \* number of row counts taken at line 75
    nBelow,         \* number of those counts that were below TOTAL_PLAYERS
    delays,         \* the wait_for_timeout calls of the current attempt
    trigger,        \* what became of Show More in the current attempt
    rows,           \* line 86: the row handles of the snapshot
    snapshots,      \* number of snapshots taken at line 86
    i,              \* index in rows of the row being decoded (0: none yet)
    loc,            \* locals of the row being decoded
    data,           \* line 87
    src,            \* for each element of data, the index of its row
    log,            \* for each row started, the cell reads made on it
    opens,          \* number of open(filename, "w") calls made
    csv             \* the rows written to the file

ctlVars == <<pc, raisedAt, playwright>>
browserVars == <<launched, closeCalls, tracing>>
tableVars == <<table, tableWaits, reloads>>
loopVars == <<scroll_attempt, curr_rows, nAdvance, nMeasure, nBelow, delays, trigger>>
rowVars == <<rows, snapshots, i, loc, data, src, log>>
sinkVars == <<opens, csv>>
vars == <<ctlVars, browserVars, out, tableVars, loopVars, rowVars, sinkVars>>

\* The locals of lines 91-119 before any of them is assigned.
Blank == [rank |-> <<>>, name |-> <<>>, world |-> <<>>,
          credits |-> <<>>, credits_gained |-> <<>>,
          victories |-> <<>>, victories_gained |-> <<>>]

Init ==
    /\ pc = "launch"
    /\ raisedAt = "none"
    /\ playwright = "off"
    /\ launched = FALSE
    /\ closeCalls = 0
    /\ tracing = "off"
    /\ out = "none"
    /\ table = "unknown"
    /\ tableWaits = 0
    /\ reloads = 0
    /\ scroll_attempt = 0
    /\ curr_rows = 0
    /\ nAdvance = 0
    /\ nMeasure = 0
    /\ nBelow = 0
    /\ delays = <<>>
    /\ trigger = "none"
    /\ rows = <<>>
    /\ snapshots = 0
    /\ i = 0
    /\ loc = Blank
    /\ data = <<>>
    /\ src = <<>>
    /\ log = <<>>
    /\ opens = 0
    /\ csv = <<>>

\* Control moves on to position l.
Go(l) == pc' = l /\ UNCHANGED <<raisedAt, playwright>>

\* The call at the current position raises and nothing catches it: the
\* exception leaves the async with block of line 18 and scrape() itself.
Raise == pc' = "raised" /\ raisedAt' = pc /\ playwright' = "stopped"

\* ----------------------------------------------------- lines 16-30: set-up
Launch ==
    /\ pc = "launch"
    /\ \/ /\ pc' = "new_context" /\ raisedAt' = raisedAt
          /\ playwright' = "on"
          /\ launched' = TRUE
          /\ UNCHANGED <<closeCalls, tracing>>
       \/ /\ Raise
          /\ UNCHANGED browserVars
    /\ UNCHANGED <<out, tableVars, loopVars, rowVars, sinkVars>>

NewContext ==
    /\ pc = "new_context"
    /\ Go("tracing_start") \/ Raise
    /\ UNCHANGED <<browserVars, out, tableVars, loopVars, rowVars, sinkVars>>

TracingStart ==
    /\ pc = "tracing_start"
    /\ \/ Go("new_page") /\ tracing' = "on"
       \/ Raise /\ tracing' = tracing
    /\ UNCHANGED <<launched, closeCalls, out, tableVars, loopVars, rowVars, sinkVars>>

NewPage ==
    /\ pc = "new_page"
    /\ Go("goto") \/ Raise
    /\ UNCHANGED <<browserVars, out, tableVars, loopVars, rowVars, sinkVars>>

\* Line 30: page.goto(URL), outside every try block.
Goto ==
    /\ pc = "goto"
    /\ Go("cookie_count") \/ Raise
    /\ UNCHANGED <<browserVars, out, tableVars, loopVars, rowVars, sinkVars>>

\* ------------------------------------------- lines 32-40: cookie prompt
\* Line 35: accept_btn.count(); an exception is caught at line 39.
CookieCount ==
    /\ pc = "cookie_count"
    /\ \E r \in {"present", "absent", "error"} :
          /\ Go(IF r = "present" THEN "cookie_click" ELSE "wait_table")
          /\ out' = IF r = "error" THEN "no_cookie" ELSE out
    /\ UNCHANGED <<browserVars, tableVars, loopVars, rowVars, sinkVars>>

\* Lines 36-37.
CookieClick ==
    /\ pc = "cookie_click"
    /\ \E ok \in BOOLEAN :
          /\ Go(IF ok THEN "cookie_wait" ELSE "wait_table")
          /\ out' = IF ok THEN "cookie_accepted" ELSE "no_cookie"
    /\ UNCHANGED <<browserVars, tableVars, loopVars, rowVars, sinkVars>>

\* Line 38.
CookieWait ==
    /\ pc = "cookie_wait"
    /\ \E ok \in BOOLEAN :
          /\ Go("wait_table")
          /\ out' = IF ok THEN out ELSE "no_cookie"
    /\ UNCHANGED <<browserVars, tableVars, loopVars, rowVars, sinkVars>>

\* ------------------------------------------- lines 42-54: wait for table
\* Variant: the second failure is ignored and the run scrolls anyway.
AfterRetryFailedGoesOn == "loop_test"

\* Where the run goes when the wait after the reload fails too (line 50).
AfterRetryFailed == "abort_trace"

\* Line 44.
WaitTable ==
    /\ pc = "wait_table"
    /\ tableWaits' = tableWaits + 1
    /\ \E found \in BOOLEAN :
          /\ Go(IF found THEN "loop_test" ELSE "reload")
          /\ table' = IF found THEN "found" ELSE table
          /\ out' = IF found THEN out ELSE "retrying"
    /\ UNCHANGED <<browserVars, reloads, loopVars, rowVars, sinkVars>>

\* Line 47: page.reload(), inside the except block and so not guarded.
Reload ==
    /\ pc = "reload"
    /\ reloads' = reloads + 1
    /\ Go("wait_table_retry") \/ Raise
    /\ UNCHANGED <<browserVars, out, table, tableWaits, loopVars, rowVars, sinkVars>>

\* Lines 48-51.
WaitTableRetry ==
    /\ pc = "wait_table_retry"
    /\ tableWaits' = tableWaits + 1
    /\ \E found \in BOOLEAN :
          /\ Go(IF found THEN "loop_test" ELSE AfterRetryFailed)
          /\ table' = IF found THEN "found_after_reload" ELSE "missing"
          /\ out' = IF found THEN out ELSE "not_found"
    /\ UNCHANGED <<browserVars, reloads, loopVars, rowVars, sinkVars>>

\* Line 52.
AbortTraceStop ==
    /\ pc = "abort_trace"
    /\ \/ Go("abort_close") /\ tracing' = "stopped"
       \/ Raise /\ tracing' = tracing
    /\ UNCHANGED <<launched, closeCalls, out, tableVars, loopVars, rowVars, sinkVars>>

\* Lines 53-54: browser.close(), then return.
AbortClose ==
    /\ pc = "abort_close"
    /\ closeCalls' = closeCalls + 1
    /\ \/ /\ pc' = "done" /\ playwright' = "stopped" /\ raisedAt' = raisedAt
       \/ Raise
    /\ UNCHANGED <<launched, tracing, out, tableVars, loopVars, rowVars, sinkVars>>

\* ------------------------------------------- lines 56-83: reveal loop
\* Variant: the last attempt is not made.
LoopCondShort(a) == a < max_scroll_attempts - 1

\* Variant: the cap is off by one.
LoopCondInclusive(a) == a <= max_scroll_attempts

\* Line 62: the while condition.
LoopCond(a) == a < max_scroll_attempts

\* Variant: the target itself does not count as reached.
SaturatedStrict(n) == n > TOTAL_PLAYERS

\* Line 78.
Saturated(n) == n >= TOTAL_PLAYERS

\* Variant: an attempt is counted twice.
NextAttemptSkips(a) == a + 2

\* Line 83.
NextAttempt(a) == a + 1

\* Variant: running out of attempts is treated like a missing table.
AfterLoopAborts == "abort_trace"

\* Line 86 is where the run continues when the while condition is false.
AfterLoop == "snapshot"

WhileTest ==
    /\ pc = "loop_test"
    /\ Go(IF LoopCond(scroll_attempt) THEN "scroll" ELSE AfterLoop)
    /\ UNCHANGED <<browserVars, out, tableVars, loopVars, rowVars, sinkVars>>

\* Variant: the count is taken right after the scroll.
ScrollNoSettle ==
    /\ pc = "scroll"
    /\ nAdvance' = nAdvance + 1
    /\ delays' = <<>>
    /\ trigger' = "none"
    /\ Go("measure") \/ Raise
    /\ UNCHANGED <<browserVars, out, tableVars, scroll_attempt, curr_rows,
                   nMeasure, nBelow, rowVars, sinkVars>>

\* Line 63: window.scrollBy; a new attempt begins.
Scroll ==
    /\ pc = "scroll"
    /\ nAdvance' = nAdvance + 1
    /\ delays' = <<>>
    /\ trigger' = "none"
    /\ Go("settle") \/ Raise
    /\ UNCHANGED <<browserVars, out, tableVars, scroll_attempt, curr_rows,
                   nMeasure, nBelow, rowVars, sinkVars>>

\* Line 64.
Settle ==
    /\ pc = "settle"
    /\ delays' = Append(delays, SETTLE_MS)
    /\ Go("show_more_count") \/ Raise
    /\ UNCHANGED <<browserVars, out, tableVars, scroll_attempt, curr_rows,
                   nAdvance, nMeasure, nBelow, trigger, rowVars, sinkVars>>

\* Line 69: show_more.count(); an exception is caught at line 72.
ShowMoreCount ==
    /\ pc = "show_more_count"
    /\ \E r \in {"present", "absent", "error"} :
          /\ Go(IF r = "present" THEN "show_more_click" ELSE "measure")
          /\ trigger' = CASE r = "present" -> "present"
                          [] r = "absent" -> "absent"
                          [] OTHER -> "probe_failed"
    /\ UNCHANGED <<browserVars, out, tableVars, scroll_attempt, curr_rows,
                   nAdvance, nMeasure, nBelow, delays, rowVars, sinkVars>>

\* Variant: the click is outside the try block.
ShowMoreClickRaises ==
    /\ pc = "show_more_click"
    /\ \/ Go("show_more_wait") /\ trigger' = "clicked"
       \/ Raise /\ trigger' = "click_failed"
    /\ UNCHANGED <<browserVars, out, tableVars, scroll_attempt, curr_rows,
                   nAdvance, nMeasure, nBelow, delays, rowVars, sinkVars>>

\* Line 70.
ShowMoreClick ==
    /\ pc = "show_more_click"
    /\ \E ok \in BOOLEAN :
          /\ Go(IF ok THEN "show_more_wait" ELSE "measure")
          /\ trigger' = IF ok THEN "clicked" ELSE "click_failed"
    /\ UNCHANGED <<browserVars, out, tableVars, scroll_attempt, curr_rows,
                   nAdvance, nMeasure, nBelow, delays, rowVars, sinkVars>>

\* Line 71: the wait is made; whether it returns or raises, line 75 is next.
ShowMoreWait ==
    /\ pc = "show_more_wait"
    /\ delays' = Append(delays, SHOW_MORE_MS)
    /\ Go("measure")
    /\ UNCHANGED <<browserVars, out, tableVars, scroll_attempt, curr_rows,
                   nAdvance, nMeasure, nBelow, trigger, rowVars, sinkVars>>

\* Lines 75-79 and 83: count the rows, then leave the loop or count the attempt.
Measure ==
    /\ pc = "measure"
    /\ \/ \E n \in MeasureCounts :
             /\ nMeasure' = nMeasure + 1
             /\ curr_rows' = n
             /\ IF Saturated(n)
                THEN /\ Go("final_settle")
                     /\ out' = "all_detected"
                     /\ UNCHANGED <<scroll_attempt, nBelow>>
                ELSE /\ Go("loop_test")
                     /\ out' = "scrolling"
                     /\ scroll_attempt' = NextAttempt(scroll_attempt)
                     /\ nBelow' = nBelow + 1
       \/ /\ Raise
          /\ UNCHANGED <<out, scroll_attempt, curr_rows, nMeasure, nBelow>>
    /\ UNCHANGED <<browserVars, tableVars, nAdvance, delays, trigger, rowVars, sinkVars>>

\* Lines 80-81: the longer wait, then break.
FinalSettle ==
    /\ pc = "final_settle"
    /\ delays' = Append(delays, FINAL_SETTLE_MS)
    /\ Go("snapshot") \/ Raise
    /\ UNCHANGED <<browserVars, out, tableVars, scroll_attempt, curr_rows,
                   nAdvance, nMeasure, nBelow, trigger, rowVars, sinkVars>>

\* ------------------------------------------ lines 85-133: decode the rows
FieldOrder == <<"order", "name", "points", "wins">>

\* Variant: only as many rows as line 75 last counted are decoded.
AfterRowCapped(k, n) ==
    IF k < n /\ k < curr_rows
    THEN [pc |-> "read_order", i |-> k + 1] ELSE [pc |-> "save", i |-> k]

\* The for statement of line 89 after row k of n: the next row, or line 135.
AfterRow(k, n) ==
    IF k < n THEN [pc |-> "read_order", i |-> k + 1] ELSE [pc |-> "save", i |-> k]

\* Variant: after a failed read the wins cell of the same row is still read.
OnRowErrorReadsOn(k, n) == [pc |-> "read_wins", i |-> k]

\* Variant: the handler ends with break.
OnRowErrorBreak(k, n) == [pc |-> "save", i |-> k]

\* Lines 131-133: the handler ends with continue.
OnRowError(k, n) == AfterRow(k, n)

\* Lines 121-129.
Record(l) ==
    [Rank |-> l.rank, Name |-> l.name, World |-> l.world,
     Credits |-> l.credits, Victories |-> l.victories,
     CreditsGained |-> l.credits_gained,
     VictoriesGained |-> l.victories_gained]

\* Variant: the handler emits what was read of the row so far.
DataAfterErrorPartial(d, l) == Append(d, Record(l))

\* Lines 131-133: the handler leaves data as it is.
DataAfterError(d, l) == d

\* The read e of a cell of row k is added to the log.
Logged(l, k, e) ==
    IF Len(l) < k THEN Append(l, <<e>>) ELSE [l EXCEPT ![k] = Append(@, e)]

ReadOk(field, text) == [field |-> field, ok |-> TRUE, text |-> text]
ReadFailed(field) == [field |-> field, ok |-> FALSE, text |-> <<>>]

\* Line 86: page.locator(...).all(); line 87.  The attempt history of the
\* reveal loop ends here.
Snapshot ==
    /\ pc = "snapshot"
    /\ \/ \E n \in 0 .. MaxRows :
             /\ rows' = [k \in 1 .. n |-> k]
             /\ snapshots' = snapshots + 1
             /\ data' = <<>>
             /\ Go(AfterRow(0, n).pc)
             /\ i' = AfterRow(0, n).i
       \/ /\ Raise
          /\ UNCHANGED <<rows, snapshots, data, i>>
    /\ delays' = <<>>
    /\ trigger' = "none"
    /\ UNCHANGED <<browserVars, out, tableVars, scroll_attempt, curr_rows,
                   nAdvance, nMeasure, nBelow, loc, src, log, sinkVars>>

\* Lines 131-133: a read of the cell `field` of row i raised.  The locals of
\* the row are dead from here on (each is assigned again before it is used).
RowFailed(field) ==
    /\ log' = Logged(log, i, ReadFailed(field))
    /\ out' = "skipping"
    /\ loc' = Blank
    /\ data' = DataAfterError(data, loc)
    /\ Go(OnRowError(i, Len(rows)).pc)
    /\ i' = OnRowError(i, Len(rows)).i
    /\ UNCHANGED <<rows, snapshots, src>>

\* Line 91.
ReadOrderFrom(texts) ==
    /\ pc = "read_order"
    /\ \/ \E t \in texts :
             /\ loc' = [loc EXCEPT !.rank = clean_text(t)]
             /\ log' = Logged(log, i, ReadOk("order", t))
             /\ Go("read_name")
             /\ UNCHANGED <<out, rows, snapshots, i, data, src>>
       \/ RowFailed("order")
    /\ UNCHANGED <<browserVars, tableVars, loopVars, sinkVars>>

\* Lines 94-103.
ReadNameFrom(texts) ==
    /\ pc = "read_name"
    /\ \/ \E t \in texts :
             /\ loc' = [loc EXCEPT !.name = NameOf(clean_text(t)),
                                   !.world = WorldOf(clean_text(t))]
             /\ log' = Logged(log, i, ReadOk("name", t))
             /\ Go("read_points")
             /\ UNCHANGED <<out, rows, snapshots, i, data, src>>
       \/ RowFailed("name")
    /\ UNCHANGED <<browserVars, tableVars, loopVars, sinkVars>>

\* Lines 106-109.
ReadPointsFrom(texts) ==
    /\ pc = "read_points"
    /\ \/ \E t \in texts :
             /\ loc' = [loc EXCEPT !.credits = CreditsOf(clean_text(t)),
                                   !.credits_gained = CreditsGainedOf(clean_text(t))]
             /\ log' = Logged(log, i, ReadOk("points", t))
             /\ Go("read_wins")
             /\ UNCHANGED <<out, rows, snapshots, i, data, src>>
       \/ RowFailed("points")
    /\ UNCHANGED <<browserVars, tableVars, loopVars, sinkVars>>

\* Lines 112-119.
ReadWinsFrom(texts) ==
    /\ pc = "read_wins"
    /\ \/ \E t \in texts :
             /\ loc' = [loc EXCEPT !.victories = VictoriesOf(clean_text(t)),
                                   !.victories_gained =
                                       remove_plus(VictoriesGainedOf(clean_text(t))),
                                   !.credits_gained = remove_plus(@)]
             /\ log' = Logged(log, i, ReadOk("wins", t))
             /\ Go("append")
             /\ UNCHANGED <<out, rows, snapshots, i, data, src>>
       \/ RowFailed("wins")
    /\ UNCHANGED <<browserVars, tableVars, loopVars, sinkVars>>

ReadOrder == ReadOrderFrom(OrderTexts)
ReadName == ReadNameFrom(NameTexts)
ReadPoints == ReadPointsFrom(PointsTexts)
ReadWins == ReadWinsFrom(WinsTexts)

\* Variant: a record equal to one already in data is not appended again.
AppendRecordDedup ==
    /\ pc = "append"
    /\ IF \E k \in 1 .. Len(data) : data[k] = Record(loc)
       THEN UNCHANGED <<data, src>>
       ELSE data' = Append(data, Record(loc)) /\ src' = Append(src, i)
    /\ loc' = Blank
    /\ Go(AfterRow(i, Len(rows)).pc)
    /\ i' = AfterRow(i, Len(rows)).i
    /\ UNCHANGED <<browserVars, out, tableVars, loopVars, rows, snapshots, log, sinkVars>>

\* Lines 121-129: data.append; the for statement moves on.
AppendRecord ==
    /\ pc = "append"
    /\ data' = Append(data, Record(loc))
    /\ src' = Append(src, i)
    /\ loc' = Blank
    /\ Go(AfterRow(i, Len(rows)).pc)
    /\ i' = AfterRow(i, Len(rows)).i
    /\ UNCHANGED <<browserVars, out, tableVars, loopVars, rows, snapshots, log, sinkVars>>

\* ------------------------------------------------ lines 135-150: the sink
\* Variant: the file is written whatever data holds.
ShouldWriteAlways(d) == TRUE

\* Line 139: if data.
ShouldWrite(d) == d # <<>>

\* Lines 139-146.
SaveCSV ==
    /\ pc = "save"
    /\ IF ShouldWrite(data)
       THEN /\ opens' = opens + 1
            /\ \/ Go("trace_stop") /\ csv' = data /\ out' = "scraped"
               \/ Raise /\ UNCHANGED <<csv, out>>
       ELSE /\ Go("trace_stop")
            /\ out' = "no_data"
            /\ UNCHANGED sinkVars
    /\ UNCHANGED <<browserVars, tableVars, loopVars, rowVars>>

\* Line 149.
TraceStop ==
    /\ pc = "trace_stop"
    /\ \/ Go("close") /\ tracing' = "stopped"
       \/ Raise /\ tracing' = tracing
    /\ UNCHANGED <<launched, closeCalls, out, tableVars, loopVars, rowVars, sinkVars>>

\* Line 150: browser.close(); the async with block ends.
Close ==
    /\ pc = "close"
    /\ closeCalls' = closeCalls + 1
    /\ \/ /\ pc' = "done" /\ playwright' = "stopped" /\ raisedAt' = raisedAt
       \/ Raise
    /\ UNCHANGED <<launched, tracing, out, tableVars, loopVars, rowVars, sinkVars>>

Next ==
    \/ Launch \/ NewContext \/ TracingStart \/ NewPage \/ Goto
    \/ CookieCount \/ CookieClick \/ CookieWait
    \/ WaitTable \/ Reload \/ WaitTableRetry \/ AbortTraceStop \/ AbortClose
    \/ WhileTest \/ Scroll \/ Settle
    \/ ShowMoreCount \/ ShowMoreClick \/ ShowMoreWait
    \/ Measure \/ FinalSettle
    \/ Snapshot \/ ReadOrder \/ ReadName \/ ReadPoints \/ ReadWins \/ AppendRecord
    \/ SaveCSV \/ TraceStop \/ Close

Spec == Init /\ [][Next]_vars

\* ------------------------------------------- one row decoded on its own
\* The run has just taken a snapshot of one row, after a first count of
\* TOTAL_PLAYERS (a state of Spec), and lines 89-133 decode that row from any
\* of the texts above.
InitDecoder ==
    /\ pc = "read_order"
    /\ raisedAt = "none"
    /\ playwright = "on"
    /\ launched = TRUE
    /\ closeCalls = 0
    /\ tracing = "on"
    /\ out = "all_detected"
    /\ table = "found"
    /\ tableWaits = 1
    /\ reloads = 0
    /\ scroll_attempt = 0
    /\ curr_rows = TOTAL_PLAYERS
    /\ nAdvance = 1
    /\ nMeasure = 1
    /\ nBelow = 0
    /\ delays = <<>>
    /\ trigger = "none"
    /\ rows = <<1>>
    /\ snapshots = 1
    /\ i = 1
    /\ loc = Blank
    /\ data = <<>>
    /\ src = <<>>
    /\ log = <<>>
    /\ opens = 0
    /\ csv = <<>>

DecodeOrder == ReadOrderFrom(AllOrderTexts)
DecodeName == ReadNameFrom(AllNameTexts)
DecodePoints == ReadPointsFrom(AllMetricTexts)
DecodeWins == ReadWinsFrom(AllMetricTexts)

NextDecoder == DecodeOrder \/ DecodeName \/ DecodePoints \/ DecodeWins \/ AppendRecord

SpecDecoder == InitDecoder /\ [][NextDecoder]_vars

\* ------------------------------------------------------------- properties
\* The position the run is at, or was at when its call raised.
Pos == IF pc = "raised" THEN raisedAt ELSE pc

AttemptPcs == {"scroll", "settle", "show_more_count", "show_more_click",
               "show_more_wait", "measure"}
RowPcs == {"read_order", "read_name", "read_points", "read_wins", "append"}
AfterSavePcs == {"trace_stop", "close", "done"}

\* The rows on which some cell read raised.
FailedRows == {k \in 1 .. Len(log) : \E j \in 1 .. Len(log[k]) : ~log[k][j].ok}

\* The rows whose four cells were all read, in the order of FieldOrder.
CompleteRows ==
    {k \in 1 .. Len(log) :
        /\ Len(log[k]) = Len(FieldOrder)
        /\ \A j \in 1 .. Len(FieldOrder) : log[k][j].ok /\ log[k][j].field = FieldOrder[j]}

RecordFields == {"Rank", "Name", "World", "Credits", "Victories",
                 "CreditsGained", "VictoriesGained"}

\* The calls whose exceptions C1 lists, by position.
C1_ListedCalls == {"goto", "reload", "scroll", "measure", "snapshot", "save"}

\* C1: on every exit of scrape() after a successful launch (a return, or an
\* exception raised by navigation, reload, scrolling, row counting, row
\* snapshotting or file writing) browser.close() has been called exactly once.
C1_ClosedExactlyOnce ==
    (launched /\ (pc = "done" \/ (pc = "raised" /\ raisedAt \in C1_ListedCalls)))
        => closeCalls = 1

\* A count has reached TOTAL_PLAYERS, or scroll_attempt has reached the cap.
C2_Stopped ==
    \/ nMeasure > 0 /\ curr_rows >= TOTAL_PLAYERS
    \/ scroll_attempt = max_scroll_attempts

\* C2: scroll_attempt stays within 0 .. max_scroll_attempts, and once a count
\* has reached TOTAL_PLAYERS or scroll_attempt has reached the cap the run is
\* never again at a position of the loop body, so it scrolls and counts no more.
C2_BoundedAndStops ==
    /\ scroll_attempt \in 0 .. max_scroll_attempts
    /\ C2_Stopped => /\ Pos \notin AttemptPcs
                     /\ nAdvance = nMeasure
                     /\ nAdvance <= max_scroll_attempts

C2_Witness ==
    /\ pc = "snapshot"
    /\ curr_rows >= TOTAL_PLAYERS
    /\ scroll_attempt = max_scroll_attempts - 1
    /\ nAdvance = max_scroll_attempts

\* C3: when every count was below TOTAL_PLAYERS the loop is left after exactly
\* max_scroll_attempts counts, unsaturated, and in no run are more than
\* max_scroll_attempts attempts started.
C3_ExhaustsAtCap ==
    /\ nAdvance <= max_scroll_attempts
    /\ nMeasure <= max_scroll_attempts
    /\ (pc = "snapshot" /\ nBelow = nMeasure)
          => /\ nMeasure = max_scroll_attempts
             /\ nAdvance = max_scroll_attempts
             /\ scroll_attempt = max_scroll_attempts
             /\ curr_rows < TOTAL_PLAYERS
             /\ out = "scrolling"
             /\ \A k \in 1 .. Len(delays) : delays[k] # FINAL_SETTLE_MS

C3_Witness ==
    /\ pc = "snapshot"
    /\ nBelow = nMeasure
    /\ nMeasure = max_scroll_attempts
    /\ curr_rows = TOTAL_PLAYERS - 1

\* C4 as stated: when the first count is the target, the loop is left after
\* exactly one delay, with scroll_attempt still 0 and one scroll made.
C4_OneDelayOnly ==
    (pc = "snapshot" /\ nMeasure = 1 /\ curr_rows = TOTAL_PLAYERS)
        => Len(delays) = 1 /\ scroll_attempt = 0 /\ nAdvance = 1

\* C4 as amended: when the first count is the target, scroll_attempt stays 0,
\* one scroll was made, and the loop is left after the 700 ms delay, the
\* 500 ms delay exactly when Show More was clicked, and the 1500 ms delay.
C4_FirstCountSaturates ==
    (nMeasure = 1 /\ curr_rows >= TOTAL_PLAYERS)
        => /\ scroll_attempt = 0
           /\ nAdvance = 1
           /\ nBelow = 0
           /\ Pos \notin AttemptPcs \cup {"loop_test"}
           /\ pc = "snapshot" =>
                 /\ curr_rows = TOTAL_PLAYERS
                 /\ out = "all_detected"
                 /\ delays = IF trigger = "clicked"
                             THEN <<SETTLE_MS, SHOW_MORE_MS, FINAL_SETTLE_MS>>
                             ELSE <<SETTLE_MS, FINAL_SETTLE_MS>>

C4_Witness ==
    /\ pc = "snapshot"
    /\ nMeasure = 1
    /\ curr_rows = TOTAL_PLAYERS
    /\ delays = <<SETTLE_MS, SHOW_MORE_MS, FINAL_SETTLE_MS>>

\* C5: a cell read that raises drops its row only: the rows after it are
\* still started, nothing raised out of the row loop, and once the loop is
\* over data holds one element for each row but the failed ones.
C5_OnlyFailedRowsDropped ==
    /\ pc = "raised" => raisedAt \notin RowPcs
    /\ Pos \in RowPcs => /\ Len(log) \in {i - 1, i}
                         /\ Len(data) = (i - 1) - Cardinality(FailedRows)
    /\ (snapshots = 1 /\ Pos \in {"save"} \cup AfterSavePcs)
          => /\ Len(log) = Len(rows)
             /\ \A k \in 1 .. Len(log) : log[k][1].field = "order"
             /\ Len(data) = Len(rows) - Cardinality(FailedRows)

C5_Witness ==
    /\ pc = "save"
    /\ Len(rows) = 3
    /\ FailedRows = {1}
    /\ log[1][Len(log[1])].field = "name"
    /\ Len(data) = 2

\* C6: every element of data has the seven fields and comes from a row whose
\* order, name, points and wins reads all succeeded, its Rank being the cleaned
\* order text; a row with a failed read has no element in data.
C6_NoPartialRecord ==
    /\ Len(src) = Len(data)
    /\ \A k \in 1 .. Len(data) :
          /\ DOMAIN data[k] = RecordFields
          /\ src[k] \in CompleteRows
          /\ data[k].Rank = clean_text(log[src[k]][1].text)
    /\ \A k \in FailedRows : \A j \in 1 .. Len(src) : src[j] # k
    /\ \A j, k \in 1 .. Len(src) : j < k => src[j] < src[k]

C6_Witness ==
    /\ pc = "save"
    /\ Len(rows) = 2
    /\ Len(log[1]) = 4 /\ ~log[1][4].ok
    /\ src = <<2>>

\* C7: open() is called exactly when data is not empty once every row was
\* processed, and at most once; with data empty nothing is opened or written
\* and the run reports that there is no data.
C7_WriteIffNonEmpty ==
    /\ opens <= 1
    /\ opens = 1 => /\ data # <<>>
                    /\ Len(log) = Len(rows)
                    /\ Pos \in {"save"} \cup AfterSavePcs
    /\ (snapshots = 1 /\ Pos \in AfterSavePcs)
          => /\ opens = 1 <=> data # <<>>
             /\ data = <<>> => out = "no_data" /\ csv = <<>>
             /\ data # <<>> => out = "scraped" /\ csv = data
    /\ snapshots = 0 => opens = 0 /\ csv = <<>>
    /\ (pc = "raised" /\ raisedAt = "save") => data # <<>> /\ opens = 1

C7_Witness ==
    /\ pc = "done"
    /\ Len(rows) = 2
    /\ FailedRows = {1, 2}
    /\ opens = 0
    /\ out = "no_data"

\* C8: the page is reloaded and waited for a second time exactly when the
\* first wait failed, and only once; when the second wait fails too the run
\* takes lines 52-54 only (no scroll, no count, no snapshot, no row, no file)
\* and has closed the browser when it returns; when it succeeds the loop is
\* entered in the state it is entered in after a first wait that succeeded.
C8_RetryOnceThenAbort ==
    /\ reloads <= 1 /\ tableWaits <= 2
    /\ table = "found" => reloads = 0 /\ tableWaits = 1
    /\ table \in {"found_after_reload", "missing"} => reloads = 1 /\ tableWaits = 2
    /\ Pos \in {"wait_table_retry"} => reloads = 1 /\ tableWaits = 1
    /\ table = "missing" =>
          /\ Pos \in {"abort_trace", "abort_close", "done"}
          /\ nAdvance = 0 /\ nMeasure = 0 /\ snapshots = 0
          /\ log = <<>> /\ data = <<>> /\ opens = 0
          /\ pc = "done" => closeCalls = 1 /\ out = "not_found"
    /\ Pos \in {"abort_trace", "abort_close"} => table = "missing"
    /\ (pc = "loop_test" /\ nAdvance = 0) =>
          /\ table \in {"found", "found_after_reload"}
          /\ scroll_attempt = 0 /\ curr_rows = 0 /\ nMeasure = 0
          /\ closeCalls = 0 /\ tracing = "on"

C8_Witness ==
    /\ pc = "done"
    /\ table = "missing"
    /\ tableWaits = 2
    /\ reloads = 1
    /\ closeCalls = 1

\* C9: no failure of page.goto or of the cookie prompt steps ends the run:
\* scrape() is never left by an exception raised at one of them.
C9_BestEffort ==
    pc = "raised" =>
        raisedAt \notin {"goto", "cookie_count", "cookie_click", "cookie_wait"}

\* C10: when the loop ends with scroll_attempt at the cap and the last count
\* below TOTAL_PLAYERS, the run goes on to the snapshot, starts every row of
\* it and opens the file exactly when data is not empty.
C10_ExhaustionNotFatal ==
    scroll_attempt = max_scroll_attempts =>
        /\ curr_rows < TOTAL_PLAYERS
        /\ Pos \in {"loop_test", "snapshot", "save"} \cup RowPcs \cup AfterSavePcs
        /\ Pos \in AfterSavePcs =>
              /\ snapshots = 1
              /\ Len(log) = Len(rows)
              /\ Len(data) = Len(rows) - Cardinality(FailedRows)
              /\ opens = 1 <=> data # <<>>
              /\ data # <<>> => csv = data

C10_Witness ==
    /\ pc = "done"
    /\ scroll_attempt = max_scroll_attempts
    /\ curr_rows = 0
    /\ Len(rows) = 2
    /\ Len(csv) = 2
    /\ out = "scraped"

\* The characters of a text.
Chars(t) == {t[k] : k \in 1 .. Len(t)}

\* The raw text read for cell c (1: order .. 4: wins) of the row of data[k].
RawOf(k, c) == log[src[k]][c].text

\* C11: for every decoded row Name is the first two whitespace-delimited
\* tokens of the name text (the whole text, with an empty World, when there
\* are fewer than two), and no bracketed group is part of World: the row
\* "John Smith Mateus [Crystal]" has Name "John Smith" and World "Mateus".
C11_NameWorldWithoutGroup ==
    \A k \in 1 .. Len(data) :
        LET tokens == split(RawOf(k, 2))
        IN  /\ Len(tokens) >= 2 => data[k].Name = tokens[1] \o <<" ">> \o tokens[2]
            /\ Len(tokens) < 2 => /\ data[k].Name = clean_text(RawOf(k, 2))
                                  /\ data[k].World = <<>>
            /\ Chars(data[k].World) \cap {"[", "]"} = {}
            /\ RawOf(k, 2) = JohnSmithMateusCrystal
                  => /\ data[k].Name = <<"J", "o", "h", "n", " ", "S", "m", "i", "t", "h">>
                     /\ data[k].World = <<"M", "a", "t", "e", "u", "s">>

\* The metric texts of the examples, and their parts.
Text1234Plus56 == <<"1", "2", "3", "4", " ", "+", "5", "6">>
Text1234 == <<"1", "2", "3", "4">>
Text56 == <<"5", "6">>
TextPlusesAndThird == <<"+", "1", " ", "+", "+", "2", " ", "3">>
TextPlus1 == <<"+", "1">>
Text2 == <<"2">>

\* What a "value +gain" text must decode to: the first token, and the second
\* token without its plus signs.
MetricPairHolds(text, value, gained) ==
    LET tokens == split(text)
    IN  /\ value = IF Len(tokens) > 0 THEN tokens[1] ELSE <<>>
        /\ gained = IF Len(tokens) > 1 THEN remove_plus(tokens[2]) ELSE <<>>
        /\ "+" \notin Chars(gained)
        /\ text = Text1234Plus56 => value = Text1234 /\ gained = Text56
        /\ text = Text1234 => value = Text1234 /\ gained = <<>>
        /\ text = <<>> => value = <<>> /\ gained = <<>>
        /\ text = TextPlusesAndThird => value = TextPlus1 /\ gained = Text2

\* C12: of every points and wins text the value is the first token ("" when
\* there is none) and the gain is the second token ("" when there is none)
\* without its plus signs; "1234 +56" gives ("1234", "56"), "1234" gives
\* ("1234", "") and "" gives ("", ""); points and wins are decoded alike, the
\* value keeps its plus signs and tokens after the second are ignored.
C12_MetricPairs ==
    \A k \in 1 .. Len(data) :
        /\ MetricPairHolds(RawOf(k, 3), data[k].Credits, data[k].CreditsGained)
        /\ MetricPairHolds(RawOf(k, 4), data[k].Victories, data[k].VictoriesGained)
        /\ RawOf(k, 3) = RawOf(k, 4)
              => /\ data[k].Credits = data[k].Victories
                 /\ data[k].CreditsGained = data[k].VictoriesGained

C12_Witness ==
    /\ pc = "save"
    /\ Len(data) = 1
    /\ RawOf(1, 3) = Text1234Plus56
    /\ data[1].Credits = Text1234
    /\ data[1].CreditsGained = Text56
    /\ RawOf(1, 4) = TextPlusesAndThird
    /\ data[1].Victories = TextPlus1
    /\ data[1].VictoriesGained = Text2

\* C13: clean_text is idempotent, and for every text over spaces, tabs, line
\* breaks and a letter its result has no two consecutive spaces, no space at
\* either end and no line break (checked on the rank of the row, which line
\* 91 sets to clean_text of the order text).
C13_CleanIdempotent ==
    (pc = "read_name" /\ Len(log) = 1) =>
        LET c == loc.rank
        IN  /\ clean_text(c) = c
            /\ \A k \in 1 .. Len(c) - 1 : ~(c[k] = " " /\ c[k + 1] = " ")
            /\ c # <<>> => c[1] # " " /\ c[Len(c)] # " "
            /\ Chars(c) \cap {"\n", "\t"} = {}

C13_Witness ==
    /\ pc = "read_name"
    /\ log[1][1].text = <<" ", "a", "\n", " ">>
    /\ loc.rank = <<"a">>

\* The rows whose four reads succeeded and whose append has been made.
AppendedRows == CompleteRows \ (IF pc = "append" THEN {i} ELSE {})

\* data is the sequence of the decoded rows, in the order of the snapshot.
C14_Subsequence ==
    /\ Len(src) = Len(data)
    /\ \A k \in 1 .. Len(src) : src[k] \in 1 .. Len(rows)
    /\ \A j, k \in 1 .. Len(src) : j < k => src[j] < src[k]
    /\ {src[k] : k \in 1 .. Len(src)} = AppendedRows
    /\ Len(data) = Cardinality(AppendedRows)
    /\ \A k \in 1 .. Len(data) :
          /\ data[k].Rank = clean_text(RawOf(k, 1))
          /\ data[k].Name = NameOf(clean_text(RawOf(k, 2)))

\* A step leaves the elements data already has where they are.
C14_AppendOnly ==
    /\ Len(data') >= Len(data)
    /\ SubSeq(data', 1, Len(data)) = data

\* C14: data is an order-preserving subsequence of the snapshot of line 86:
\* its elements are in the order of their rows, it only grows by appends, and
\* every row whose reads succeeded has its own element, also when another
\* row has the same content.
C14_OrderedAppendOnly == [](C14_Subsequence) /\ [][C14_AppendOnly]_vars

C14_Witness ==
    /\ pc = "save"
    /\ Len(rows) = 3
    /\ src = <<1, 3>>
    /\ data[1] = data[2]
    /\ log[1] = log[3]

ShowMorePcs == {"show_more_count", "show_more_click", "show_more_wait"}

\* C15: in each attempt the scroll comes first, then the 700 ms wait, then
\* Show More (with its 500 ms wait when clicked), then the count: the run is
\* never at the count of an attempt before that attempt's scroll and wait,
\* and when the loop is left as many scrolls as counts have been made.
C15_AttemptOrder ==
    /\ nMeasure <= nAdvance /\ nAdvance <= nMeasure + 1
    /\ pc = "settle" => nAdvance = nMeasure + 1 /\ delays = <<>>
    /\ pc \in {"show_more_count", "show_more_click"}
          => nAdvance = nMeasure + 1 /\ delays = <<SETTLE_MS>>
    /\ pc = "show_more_wait" => nAdvance = nMeasure + 1 /\ delays = <<SETTLE_MS>>
    /\ pc = "measure"
          => /\ nAdvance = nMeasure + 1
             /\ delays \in {<<SETTLE_MS>>, <<SETTLE_MS, SHOW_MORE_MS>>}
    /\ pc \in {"loop_test", "scroll", "final_settle", "snapshot"} => nAdvance = nMeasure

C15_Witness ==
    /\ pc = "measure"
    /\ nAdvance = 2
    /\ nMeasure = 1
    /\ delays = <<SETTLE_MS, SHOW_MORE_MS>>

\* C16: Show More is clicked only after the probe found it, the 500 ms wait
\* is made only after a click, and an absent button or a failure of the probe
\* or of the click is swallowed: the attempt goes on to the count at line 75.
C16_TriggerOptional ==
    /\ pc = "raised" => raisedAt \notin ShowMorePcs
    /\ pc = "show_more_click" => trigger = "present"
    /\ pc = "show_more_wait" => trigger = "clicked"
    /\ trigger = "present" => pc = "show_more_click"
    /\ (\E k \in 1 .. Len(delays) : delays[k] = SHOW_MORE_MS) => trigger = "clicked"
    /\ pc \in {"settle", "show_more_count"} => trigger = "none"
    /\ (pc \in ShowMorePcs \cup {"measure"}
          /\ trigger \in {"absent", "probe_failed", "click_failed"})
          => pc = "measure" /\ delays = <<SETTLE_MS>>
    /\ (pc \in ShowMorePcs \cup {"measure"} /\ trigger = "clicked")
          => \/ pc = "show_more_wait"
             \/ pc = "measure" /\ delays = <<SETTLE_MS, SHOW_MORE_MS>>

C16_Witness ==
    /\ pc = "measure"
    /\ trigger = "click_failed"
    /\ delays = <<SETTLE_MS>>
    /\ nMeasure = 0

\* C17: the cells of a row are read in the order order, name, points, wins,
\* no cell of a row is read after a read of that row failed, and no cell of a
\* row is read before the row before it was appended to data or dropped.
C17_SequentialRows ==
    /\ Len(log) <= Len(rows)
    /\ \A k \in 1 .. Len(log) :
          /\ Len(log[k]) \in 1 .. Len(FieldOrder)
          /\ \A j \in 1 .. Len(log[k]) : log[k][j].field = FieldOrder[j]
          /\ \A j \in 1 .. Len(log[k]) - 1 : log[k][j].ok
    /\ \A k \in 1 .. Len(log) - 1 :
          \/ k \in FailedRows
          \/ \E j \in 1 .. Len(src) : src[j] = k
    /\ pc \in RowPcs => Len(log) \in {i - 1, i}
    /\ pc = "read_order" => Len(log) = i - 1
    /\ pc = "read_name" => Len(log[i]) = 1
    /\ pc = "read_points" => Len(log[i]) = 2
    /\ pc = "read_wins" => Len(log[i]) = 3
    /\ pc = "append" => i \in CompleteRows

C17_Witness ==
    /\ pc = "read_name"
    /\ i = 3
    /\ Len(log[1]) = 3 /\ ~log[1][3].ok
    /\ src = <<2>>

\* The two ways the loop is left.
C18_SaturatedExit ==
    /\ curr_rows >= TOTAL_PLAYERS
    /\ scroll_attempt < max_scroll_attempts
    /\ Len(delays) > 0 /\ delays[Len(delays)] = FINAL_SETTLE_MS

C18_ExhaustedExit ==
    /\ scroll_attempt = max_scroll_attempts
    /\ curr_rows < TOTAL_PLAYERS
    /\ \A k \in 1 .. Len(delays) : delays[k] # FINAL_SETTLE_MS

\* C18: when the loop is left exactly one of the two holds: the last count
\* reached TOTAL_PLAYERS, scroll_attempt is below the cap and the 1500 ms wait
\* was made; or scroll_attempt is at the cap, the last count is below
\* TOTAL_PLAYERS and no 1500 ms wait was made.  scroll_attempt always is the
\* number of counts that were below TOTAL_PLAYERS.
C18_OneTerminalState ==
    /\ scroll_attempt = nBelow
    /\ pc = "snapshot" => /\ nMeasure >= 1
                          /\ C18_SaturatedExit \/ C18_ExhaustedExit
                          /\ ~(C18_SaturatedExit /\ C18_ExhaustedExit)

C18_Witness ==
    /\ pc = "snapshot"
    /\ C18_SaturatedExit
    /\ scroll_attempt = 3
    /\ nMeasure = 4

====
